---- MODULE Spec2Model ----
(***************************************************************************)
(* Model of the Avro primitive/container codec of avro-rs (src/codec.rs).  *)
(*                                                                         *)
(* Bytes are integers 0..255.  Machine words (u32, u64, usize, i64) are    *)
(* bit vectors: sequences of 0/1, least significant bit first, whose       *)
(* length is the width of the word.  i32 values are integers.  A String is *)
(* the sequence of its UTF-8 bytes.  A HashMap value is the sequence of    *)
(* its (key, value) pairs in the order its iterator yields them; a decoded *)
(* HashMap is the set of its (key, value) pairs.                           *)
(***************************************************************************)
EXTENDS Integers, Sequences, FiniteSets, TLC

VARIABLES
    overflowChecks, \* build: TRUE = debug (overflow checks on), FALSE = release
    pc,             \* "idle" | "ready" | "done"
    src,            \* what the cursor iterates: "none" | "encoded" | "prefix" | "bytes" | "pairs"
    ty,             \* the type being encoded / decoded
    val,            \* the value given to encode (or the pairs a fed map stream carries)
    encoded,        \* the Vec<u8> encode returned
    stream,         \* the bytes behind the ByteStream cursor
    cur,            \* the cursor: bytes consumed and number of next() calls
    result          \* what decode returned, with the cursor it left

vars == <<overflowChecks, pc, src, ty, val, encoded, stream, cur, result>>

----------------------------------------------------------------------------
(* Bounds of the model *)

MaxSmall == 3       \* small integers -MaxSmall..MaxSmall are inputs
MaxCont == 11       \* fed raw streams carry up to MaxCont continuation bytes
MaxLen == 2         \* containers hold up to MaxLen elements / entries
MaxPairs == 3       \* fed map streams carry up to MaxPairs pairs

----------------------------------------------------------------------------
(* Machine words *)

\* the width of usize: the code counts on a 64-bit target
PtrWidth == 64

I32_MAX == 2147483647
I32_MIN == -2147483647 - 1

RECURSIVE ToBits(_, _)
\* the w low bits of the two's complement representation of integer n
ToBits(n, w) == IF w = 0 THEN <<>> ELSE <<n % 2>> \o ToBits(n \div 2, w - 1)

RECURSIVE Unsigned(_)
\* the value of a bit vector read as an unsigned number (must fit an integer)
Unsigned(b) == IF b = <<>> THEN 0 ELSE Head(b) + 2 * Unsigned(Tail(b))

\* a word built bit by bit, as an explicit sequence
Word(f) == SubSeq(f, 1, Len(f))
Zero(w) == Word([i \in 1..w |-> 0])
IsZero(b) == \A i \in 1..Len(b) : b[i] = 0
Shl(b, k) == Word([i \in 1..Len(b) |-> IF i > k THEN b[i - k] ELSE 0])
Shr(b, k) == Word([i \in 1..Len(b) |-> IF i + k <= Len(b) THEN b[i + k] ELSE 0])
Sar(b, k) == Word([i \in 1..Len(b) |-> IF i + k <= Len(b) THEN b[i + k] ELSE b[Len(b)]])
BitXor(a, b) == Word([i \in 1..Len(a) |-> (a[i] + b[i]) % 2])
BitOr(a, b) == Word([i \in 1..Len(a) |-> IF a[i] = 1 \/ b[i] = 1 THEN 1 ELSE 0])
BitNot(b) == Word([i \in 1..Len(b) |-> 1 - b[i]])
\* `as u8`: the low 8 bits
LowByte(b) == Unsigned(SubSeq(b, 1, 8))
\* `as u32` / `as u64` of a byte: zero extension
Widen(byte, w) == ToBits(byte, w)
\* `as i32` of a u32
AsI32(b) == IF b[32] = 1 THEN Unsigned(SubSeq(b, 1, 31)) + I32_MIN ELSE Unsigned(SubSeq(b, 1, 31))

----------------------------------------------------------------------------
(* ByteStream: a pull-based cursor over `stream` *)

NewCursor == [pos |-> 0, reads |-> 0]

\* bytes.next(): the next byte (or -1 for Option::None) and the advanced cursor
BytesNext(s, c) ==
    IF c.pos < Len(s)
    THEN [byte |-> s[c.pos + 1], c |-> [pos |-> c.pos + 1, reads |-> c.reads + 1]]
    ELSE [byte |-> -1, c |-> [pos |-> c.pos, reads |-> c.reads + 1]]

RetSome(v, c) == [st |-> "Some", v |-> v, c |-> c]
RetNone(c) == [st |-> "None", v |-> <<>>, c |-> c]
RetPanic(c) == [st |-> "Panic", v |-> <<>>, c |-> c]

----------------------------------------------------------------------------
(* ZigZag varints *)

\* (*self << 1) ^ (*self >> (w-1)) on a w-bit signed word
ZigZagNoFold(bits) == Shl(bits, 1)
ZigZag(bits) == BitXor(Shl(bits, 1), Sar(bits, Len(bits) - 1))

RECURSIVE VarintLoop(_)
\* while vint != 0 { encoded.push((vint | 0x80) as u8); vint = vint >> 7 }
VarintLoop(vint) ==
    IF IsZero(vint) THEN <<>>
    ELSE <<(LowByte(vint) % 128) + 128>> \o VarintLoop(Shr(vint, 7))

\* if let Some(last) = encoded.pop() { encoded.push(last ^ 0x80) }
ClearLastKeep(e) == e
ClearLast(e) ==
    IF e = <<>> THEN e
    ELSE LET last == e[Len(e)]
         IN  SubSeq(e, 1, Len(e) - 1) \o <<IF last >= 128 THEN last - 128 ELSE last + 128>>

i32_encode(v) ==
    IF v = 0 THEN <<0>> ELSE ClearLast(VarintLoop(ZigZag(ToBits(v, 32))))

i64_encode(bits) ==
    IF IsZero(bits) THEN <<0>> ELSE ClearLast(VarintLoop(ZigZag(bits)))

\* x << (7 * count) on a w-bit word: a shift amount >= w panics with overflow
\* checks and is masked to its low bits without them
ShiftAmount(w, count) == (7 * count) % w
ShiftOverflows(w, count) == 7 * count >= w

RECURSIVE DecodeLoop(_, _, _, _)

\* if byte & 0x80 == 0 { break } else go round the loop again
DecodeBreak(s, n, acc, count) ==
    IF n.byte < 128 THEN RetSome(acc, n.c) ELSE DecodeLoop(s, n.c, acc, count + 1)

\* the loop body for what bytes.next() returned:
\* vint = vint | (((byte & 0x7F) as uN) << (7 * count)); count += 1
DecodeStep(s, n, vint, count) ==
    IF n.byte = -1 THEN RetNone(n.c)
    ELSE IF ShiftOverflows(Len(vint), count) /\ overflowChecks THEN RetPanic(n.c)
    ELSE DecodeBreak(s, n,
            BitOr(vint, Shl(Widen(n.byte % 128, Len(vint)), ShiftAmount(Len(vint), count))),
            count)

\* the loop of i32::decode / i64::decode; the width is the width of vint
DecodeLoop(s, c, vint, count) == DecodeStep(s, BytesNext(s, c), vint, count)

\* if vint & 1 == 1 { (vint >> 1) ^ -1 } else { vint >> 1 }
UnZigZag(vint) == IF vint[1] = 1 THEN BitNot(Shr(vint, 1)) ELSE Shr(vint, 1)

\* what i32::decode returns once its loop has ended with r
i32_result(r) == IF r.st = "Some" THEN RetSome(AsI32(UnZigZag(r.v)), r.c) ELSE r

i32_decode(s, c) == i32_result(DecodeLoop(s, c, Zero(32), 0))

i64_result(r) == IF r.st = "Some" THEN RetSome(UnZigZag(r.v), r.c) ELSE r

i64_decode(s, c) == i64_result(DecodeLoop(s, c, Zero(64), 0))

----------------------------------------------------------------------------
(* Lengths *)

usize_encodeNoShift(bits) ==
    IF IsZero(bits) THEN <<0>> ELSE ClearLast(VarintLoop(bits))

usize_encode(bits) ==
    IF IsZero(bits) THEN <<0>> ELSE ClearLast(VarintLoop(Shl(bits, 1)))

\* i32::decode(bytes).map(|x| x.abs() as usize): abs of i32::MIN overflows,
\* which panics with overflow checks and yields i32::MIN without them
Abs(x) == ToBits(IF x < 0 /\ x # I32_MIN THEN -x ELSE x, PtrWidth)

\* .map(|x| x.abs() as usize) on what i32::decode returned
usize_map(r) ==
    IF r.st # "Some" THEN r
    ELSE IF r.v = I32_MIN /\ overflowChecks THEN RetPanic(r.c)
    ELSE RetSome(Abs(r.v), r.c)

usize_decode(s, c) == usize_map(i32_decode(s, c))

\* a usize as a model integer, when it is below 2^31
FitsInt(bits) == \A i \in 32..Len(bits) : bits[i] = 0
AsInt(bits) == Unsigned(SubSeq(bits, 1, 31))

----------------------------------------------------------------------------
(* Fixed-width floats, bool, u8: an f32 / f64 is its 32 / 64 bit pattern *)

\* mem::transmute between a float and its bytes, on a little-endian target
TransmuteToBytes(bits) == Word([i \in 1..(Len(bits) \div 8) |-> LowByte(Shr(bits, 8 * (i - 1)))])
RECURSIVE TransmuteFromBytes(_)
TransmuteFromBytes(bs) == IF bs = <<>> THEN <<>> ELSE ToBits(Head(bs), 8) \o TransmuteFromBytes(Tail(bs))

f32_encode(bits) == TransmuteToBytes(bits)
f64_encode(bits) == TransmuteToBytes(bits)

\* match (bytes.next(), ..., bytes.next()): all n calls are made
FloatDecode(s, c, n) ==
    LET avail == Len(s) - c.pos
        c2 == [pos |-> IF n <= avail THEN c.pos + n ELSE Len(s), reads |-> c.reads + n]
    IN  IF n <= avail
        THEN RetSome(TransmuteFromBytes(SubSeq(s, c.pos + 1, c.pos + n)), c2)
        ELSE RetNone(c2)

f32_decode(s, c) == FloatDecode(s, c, 4)
f64_decode(s, c) == FloatDecode(s, c, 8)

bool_encode(v) == IF v THEN <<1>> ELSE <<0>>

bool_decode(s, c) ==
    LET n == BytesNext(s, c)
    IN  IF n.byte = 0 THEN RetSome(FALSE, n.c)
        ELSE IF n.byte = 1 THEN RetSome(TRUE, n.c)
        ELSE RetNone(n.c)

u8_encode(v) == <<v>>

u8_decode(s, c) ==
    LET n == BytesNext(s, c)
    IN  IF n.byte = -1 THEN RetNone(n.c) ELSE RetSome(n.byte, n.c)

----------------------------------------------------------------------------
(* Strings *)

IsCont(b) == b >= 128 /\ b <= 191

RECURSIVE IsUtf8(_)
\* String::from_utf8 accepts exactly the well-formed UTF-8 byte sequences
IsUtf8(bs) ==
    IF bs = <<>> THEN TRUE
    ELSE LET b == bs[1]
             n == Len(bs)
         IN  IF b <= 127 THEN IsUtf8(Tail(bs))
             ELSE IF b >= 194 /\ b <= 223
             THEN n >= 2 /\ IsCont(bs[2]) /\ IsUtf8(SubSeq(bs, 3, n))
             ELSE IF b >= 224 /\ b <= 239
             THEN /\ n >= 3
                  /\ IsCont(bs[2]) /\ IsCont(bs[3])
                  /\ (b = 224 => bs[2] >= 160)
                  /\ (b = 237 => bs[2] <= 159)
                  /\ IsUtf8(SubSeq(bs, 4, n))
             ELSE IF b >= 240 /\ b <= 244
             THEN /\ n >= 4
                  /\ IsCont(bs[2]) /\ IsCont(bs[3]) /\ IsCont(bs[4])
                  /\ (b = 240 => bs[2] >= 144)
                  /\ (b = 244 => bs[2] <= 143)
                  /\ IsUtf8(SubSeq(bs, 5, n))
             ELSE FALSE

String_encode(v) == usize_encode(ToBits(Len(v), PtrWidth)) \o v

\* bytes.take(len).collect() for the decoded length l, then the length check
\* and String::from_utf8
String_takeShort(s, l) ==
    IF l.st # "Some" THEN l
    ELSE IF FitsInt(l.v) /\ AsInt(l.v) <= Len(s) - l.c.pos
    THEN IF IsUtf8(SubSeq(s, l.c.pos + 1, l.c.pos + AsInt(l.v)))
         THEN RetSome(SubSeq(s, l.c.pos + 1, l.c.pos + AsInt(l.v)),
                      [pos |-> l.c.pos + AsInt(l.v), reads |-> l.c.reads + AsInt(l.v)])
         ELSE RetNone([pos |-> l.c.pos + AsInt(l.v), reads |-> l.c.reads + AsInt(l.v)])
    ELSE IF IsUtf8(SubSeq(s, l.c.pos + 1, Len(s)))
         THEN RetSome(SubSeq(s, l.c.pos + 1, Len(s)),
                      [pos |-> Len(s), reads |-> l.c.reads + (Len(s) - l.c.pos) + 1])
         ELSE RetNone([pos |-> Len(s), reads |-> l.c.reads + (Len(s) - l.c.pos) + 1])

String_take(s, l) ==
    IF l.st # "Some" THEN l
    ELSE IF FitsInt(l.v) /\ AsInt(l.v) <= Len(s) - l.c.pos
    THEN IF IsUtf8(SubSeq(s, l.c.pos + 1, l.c.pos + AsInt(l.v)))
         THEN RetSome(SubSeq(s, l.c.pos + 1, l.c.pos + AsInt(l.v)),
                      [pos |-> l.c.pos + AsInt(l.v), reads |-> l.c.reads + AsInt(l.v)])
         ELSE RetNone([pos |-> l.c.pos + AsInt(l.v), reads |-> l.c.reads + AsInt(l.v)])
    ELSE RetNone([pos |-> Len(s), reads |-> l.c.reads + (Len(s) - l.c.pos) + 1])

String_decode(s, c) == String_take(s, usize_decode(s, c))

----------------------------------------------------------------------------
(* Containers.  A type is a sequence of constructor names, outermost first: *)
(* <<"Vec", "HashMap", "i32">> is Vec<HashMap<String, i32>>.                *)

\* HashMap::insert: the later value replaces an earlier one for the same key
InsertKeepFirst(m, k, v) == IF \E p \in m : p[1] = k THEN m ELSE m \cup {<<k, v>>}
Insert(m, k, v) == {p \in m : p[1] # k} \cup {<<k, v>>}

RECURSIVE Encode(_, _)
RECURSIVE Vec_fold(_, _, _)
RECURSIVE HashMap_entries(_, _, _)

\* self.iter().fold(encoded, |acc, item| acc ++ item.encode())
Vec_fold(T, v, i) ==
    IF i > Len(v) THEN <<>> ELSE Encode(T, v[i]) \o Vec_fold(T, v, i + 1)

Vec_encode(T, v) == usize_encode(ToBits(Len(v), PtrWidth)) \o Vec_fold(T, v, 1)

\* for (key, value) in self.iter() { key.encode() ++ value.encode() }
HashMap_entries(T, v, i) ==
    IF i > Len(v) THEN <<>>
    ELSE String_encode(v[i][1]) \o Encode(T, v[i][2]) \o HashMap_entries(T, v, i + 1)

HashMap_encodeNoTerminator(T, v) ==
    IF v = <<>> THEN <<0>>
    ELSE usize_encode(ToBits(Len(v), PtrWidth)) \o HashMap_entries(T, v, 1)

HashMap_encode(T, v) ==
    IF v = <<>> THEN <<0>>
    ELSE usize_encode(ToBits(Len(v), PtrWidth)) \o HashMap_entries(T, v, 1) \o <<0>>

Encode(T, v) ==
    CASE T[1] = "i32" -> i32_encode(v)
      [] T[1] = "i64" -> i64_encode(v)
      [] T[1] = "usize" -> usize_encode(v)
      [] T[1] = "f32" -> f32_encode(v)
      [] T[1] = "f64" -> f64_encode(v)
      [] T[1] = "bool" -> bool_encode(v)
      [] T[1] = "u8" -> u8_encode(v)
      [] T[1] = "String" -> String_encode(v)
      [] T[1] = "Vec" -> Vec_encode(Tail(T), v)
      [] T[1] = "HashMap" -> HashMap_encode(Tail(T), v)

RECURSIVE Decode(_, _, _)
RECURSIVE Vec_loop(_, _, _, _, _)
RECURSIVE HashMap_loop(_, _, _, _, _)

\* if let Some(elem) = e { ret.push(elem) } else { return None }; len -= 1
Vec_push(T, s, e, len, ret) ==
    IF e.st # "Some" THEN e ELSE Vec_loop(T, s, e.c, len - 1, Append(ret, e.v))

\* while len > 0 { ... T::decode(bytes) ... }
Vec_loop(T, s, c, len, ret) ==
    IF len = 0 THEN RetSome(ret, c) ELSE Vec_push(T, s, Decode(T, s, c), len, ret)

\* Vec::with_capacity / HashMap::with_capacity panic with a capacity overflow
\* for a length of 2^31 or more; smaller allocations are taken to succeed
CapacityOverflow(len) == ~FitsInt(len)

\* the body of Vec<T>::decode for the decoded length l
Vec_elems(T, s, l) ==
    IF l.st # "Some" THEN l
    ELSE IF CapacityOverflow(l.v) THEN RetPanic(l.c)
    ELSE Vec_loop(T, s, l.c, AsInt(l.v), <<>>)

Vec_decode(T, s, c) == Vec_elems(T, s, usize_decode(s, c))

\* (Some(key), Some(value)) => decoded.insert(key, value), _ => return None
HashMap_match(T, s, k, e, len, decoded) ==
    IF e.st = "Panic" THEN e
    ELSE IF k.st = "Some" /\ e.st = "Some"
    THEN HashMap_loop(T, s, e.c, len - 1, Insert(decoded, k.v, e.v))
    ELSE RetNone(e.c)

\* match (String::decode(bytes), T::decode(bytes)): the value decode runs
\* even when the key decode returned None
HashMap_pair(T, s, k, len, decoded) ==
    IF k.st = "Panic" THEN k
    ELSE HashMap_match(T, s, k, Decode(T, s, k.c), len, decoded)

\* while len > 0 { ... }
HashMap_loop(T, s, c, len, decoded) ==
    IF len = 0 THEN RetSome(decoded, c)
    ELSE HashMap_pair(T, s, String_decode(s, c), len, decoded)

\* the body of HashMap<String, T>::decode for the decoded length l
HashMap_entriesOf(T, s, l) ==
    IF l.st # "Some" THEN l
    ELSE IF IsZero(l.v) THEN RetSome({}, l.c)
    ELSE IF CapacityOverflow(l.v) THEN RetPanic(l.c)
    ELSE HashMap_loop(T, s, l.c, AsInt(l.v), {})

HashMap_decode(T, s, c) == HashMap_entriesOf(T, s, usize_decode(s, c))

Decode(T, s, c) ==
    CASE T[1] = "i32" -> i32_decode(s, c)
      [] T[1] = "i64" -> i64_decode(s, c)
      [] T[1] = "usize" -> usize_decode(s, c)
      [] T[1] = "f32" -> f32_decode(s, c)
      [] T[1] = "f64" -> f64_decode(s, c)
      [] T[1] = "bool" -> bool_decode(s, c)
      [] T[1] = "u8" -> u8_decode(s, c)
      [] T[1] = "String" -> String_decode(s, c)
      [] T[1] = "Vec" -> Vec_decode(Tail(T), s, c)
      [] T[1] = "HashMap" -> HashMap_decode(Tail(T), s, c)

----------------------------------------------------------------------------
(* Inputs *)

RECURSIVE Pow2(_)
Pow2(k) == IF k = 0 THEN 1 ELSE 2 * Pow2(k - 1)

OneHot(k, w) == Shl(ToBits(1, w), k)          \* 2^k
LowOnes(k, w) == Shr(ToBits(-1, w), w - k)    \* 2^k - 1

\* the exponents k at which the encoded length of +-2^k changes, and the top one
Exps(top) == {k \in 0..top : k % 7 = 6 \/ k = top}

I32Inputs ==
    (-MaxSmall..MaxSmall)
    \cup UNION {{Pow2(k), Pow2(k) - 1, -Pow2(k), -Pow2(k) - 1} : k \in Exps(30)}
    \cup {I32_MIN, I32_MAX}

I64_MIN == OneHot(63, 64)
I64_MAX == LowOnes(63, 64)

I64Inputs ==
    {ToBits(v, 64) : v \in (-MaxSmall..MaxSmall) \cup {I32_MIN, I32_MAX}}
    \cup UNION {{OneHot(k, 64), LowOnes(k, 64), BitNot(OneHot(k, 64)), BitNot(LowOnes(k, 64))} :
                    k \in Exps(63) \ Exps(30)}

\* lengths below 2^31
LenInputs ==
    (0..MaxSmall) \cup UNION {{Pow2(k), Pow2(k) - 1} : k \in Exps(30)} \cup {I32_MAX}

F32Inputs == {ToBits(v, 32) : v \in {0, 1065353216, 2139095039, -8388609, 2143289344}}
F64Inputs ==
    {Zero(64), Shl(ToBits(1023, 64), 52), BitXor(I64_MAX, OneHot(52, 64)), BitNot(OneHot(52, 64))}

U8Inputs == {0, 1, 2, 127, 128, 255}
StringInputs == {<<>>, <<97>>, <<195, 169>>, <<116, 101, 115, 116>>, <<97, 98, 99, 100, 101>>}
KeyInputs == {<<97>>, <<>>}

SeqsUpTo(S, n) == UNION {[1..k -> S] : k \in 0..n}
DistinctKeys(ps) == \A i, j \in 1..Len(ps) : i # j => ps[i][1] # ps[j][1]

\* two values of each scalar type, the elements of containers
ScalarSample(T) ==
    CASE T[1] = "i32" -> {-1, 64}
      [] T[1] = "i64" -> {ToBits(-1, 64), ToBits(64, 64)}
      [] T[1] = "usize" -> {ToBits(0, PtrWidth), ToBits(64, PtrWidth)}
      [] T[1] = "f32" -> {ToBits(0, 32), ToBits(-8388609, 32)}
      [] T[1] = "f64" -> {Zero(64), I64_MIN}
      [] T[1] = "bool" -> BOOLEAN
      [] T[1] = "u8" -> {0, 255}
      [] T[1] = "String" -> {<<>>, <<195, 169>>}

\* a few values of each element type
Sample(T) ==
    IF T[1] = "Vec" THEN {<<>>} \cup {<<x>> : x \in ScalarSample(Tail(T))}
    ELSE IF T[1] = "HashMap" THEN {<<>>} \cup {<< <<(<<97>>), x>> >> : x \in ScalarSample(Tail(T))}
    ELSE ScalarSample(T)

Values(T) ==
    CASE T[1] = "i32" -> I32Inputs
      [] T[1] = "i64" -> I64Inputs
      [] T[1] = "usize" -> {ToBits(n, PtrWidth) : n \in LenInputs}
      [] T[1] = "f32" -> F32Inputs
      [] T[1] = "f64" -> F64Inputs
      [] T[1] = "bool" -> BOOLEAN
      [] T[1] = "u8" -> U8Inputs
      [] T[1] = "String" -> StringInputs
      [] T[1] = "Vec" -> SeqsUpTo(Sample(Tail(T)), MaxLen)
      [] T[1] = "HashMap" ->
            {ps \in SeqsUpTo(KeyInputs \X Sample(Tail(T)), MaxLen) : DistinctKeys(ps)}

ScalarTypes ==
    {<<"i32">>, <<"i64">>, <<"usize">>, <<"f32">>, <<"f64">>, <<"bool">>, <<"u8">>, <<"String">>}

VecElemTypes ==
    {<<"i32">>, <<"i64">>, <<"usize">>, <<"f32">>, <<"f64">>, <<"bool">>, <<"u8">>, <<"String">>,
     <<"Vec", "i32">>, <<"Vec", "String">>, <<"HashMap", "i32">>}

MapElemTypes ==
    {<<"i32">>, <<"String">>, <<"Vec", "i32">>, <<"HashMap", "i32">>}

Types ==
    ScalarTypes \cup {<<"Vec">> \o T : T \in VecElemTypes} \cup {<<"HashMap">> \o T : T \in MapElemTypes}

\* raw streams for the varint decoders: k continuation bytes, then nothing
\* or a terminating byte; and the encodings of the integer inputs
RawStreams ==
    {[i \in 1..k |-> b] \o t : b \in {128, 255}, k \in 0..MaxCont, t \in {<<>>, <<1>>, <<127>>}}
    \cup {i32_encode(v) : v \in I32Inputs}

VarintTypes == {<<"i32">>, <<"i64">>, <<"usize">>}

\* map streams written by hand: a count, then that many (key, value) pairs.
\* The count n is written as a length (2n), or as the i32 -n, which the
\* length decode reads as n too; a 0x00 may follow the pairs.
PairType == <<"HashMap", "i32">>
PairInputs == SeqsUpTo({<<97>>, <<98>>} \X {1, 2}, MaxPairs) \ {<<>>}
PairShapes == {"plain", "negative", "terminated"}

PairStream(ps, shape) ==
    (IF shape = "negative" THEN i32_encode(-Len(ps)) ELSE usize_encode(ToBits(Len(ps), PtrWidth)))
    \o HashMap_entries(Tail(PairType), ps, 1)
    \o (IF shape = "terminated" THEN <<0>> ELSE <<>>)

----------------------------------------------------------------------------
(* Operations *)

Init ==
    /\ overflowChecks \in BOOLEAN
    /\ pc = "idle"
    /\ src = "none"
    /\ ty = <<>>
    /\ val = <<>>
    /\ encoded = <<>>
    /\ stream = <<>>
    /\ cur = NewCursor
    /\ result = RetNone(NewCursor)

\* v.encode()
EncodeValue ==
    /\ pc = "idle"
    /\ \E T \in Types : \E v \in Values(T) :
          /\ ty' = T
          /\ val' = v
          /\ encoded' = Encode(T, v)
    /\ pc' = "encoded"
    /\ UNCHANGED <<overflowChecks, src, stream, cur, result>>

\* encoded.into_iter(): a cursor over all the bytes encode returned
IntoIter ==
    /\ pc = "encoded"
    /\ stream' = encoded
    /\ cur' = NewCursor
    /\ src' = "encoded"
    /\ pc' = "ready"
    /\ UNCHANGED <<overflowChecks, ty, val, encoded, result>>

\* a cursor over a truncated copy of the bytes encode returned
IntoIterPrefix ==
    /\ pc = "encoded"
    /\ \E k \in 0..(Len(encoded) - 1) : stream' = SubSeq(encoded, 1, k)
    /\ cur' = NewCursor
    /\ src' = "prefix"
    /\ pc' = "ready"
    /\ UNCHANGED <<overflowChecks, ty, val, encoded, result>>

\* a cursor over bytes that came from elsewhere, to be read as a varint
FeedBytes ==
    /\ pc = "idle"
    /\ ty' \in VarintTypes
    /\ stream' \in RawStreams
    /\ cur' = NewCursor
    /\ src' = "bytes"
    /\ pc' = "ready"
    /\ UNCHANGED <<overflowChecks, val, encoded, result>>

\* a cursor over a map stream whose pairs may repeat a key
FeedPairs ==
    /\ pc = "idle"
    /\ \E ps \in PairInputs : \E shape \in PairShapes :
          /\ ty' = PairType
          /\ val' = ps
          /\ stream' = PairStream(ps, shape)
    /\ cur' = NewCursor
    /\ src' = "pairs"
    /\ pc' = "ready"
    /\ UNCHANGED <<overflowChecks, encoded, result>>

\* T::decode(&mut cursor)
DecodeValue ==
    /\ pc = "ready"
    /\ result' = Decode(ty, stream, cur)
    /\ cur' = result'.c
    /\ pc' = "done"
    /\ UNCHANGED <<overflowChecks, src, ty, val, encoded, stream>>

\* the cursor and the value are dropped
Drop ==
    /\ pc = "done"
    /\ pc' = "idle"
    /\ src' = "none"
    /\ ty' = <<>>
    /\ val' = <<>>
    /\ encoded' = <<>>
    /\ stream' = <<>>
    /\ cur' = NewCursor
    /\ result' = RetNone(NewCursor)
    /\ UNCHANGED overflowChecks

Next ==
    \/ EncodeValue
    \/ IntoIter
    \/ IntoIterPrefix
    \/ FeedBytes
    \/ FeedPairs
    \/ DecodeValue
    \/ Drop

Spec == Init /\ [][Next]_vars

----------------------------------------------------------------------------
(* Properties *)

Done(kind) == pc = "done" /\ src = kind
Unread == Len(stream) - cur.pos

RECURSIVE Canon(_, _)
\* an encoded value as decode builds it: a HashMap is the set of its pairs
Canon(T, v) ==
    IF T[1] = "Vec" THEN [i \in 1..Len(v) |-> Canon(Tail(T), v[i])]
    ELSE IF T[1] = "HashMap" THEN {<<v[i][1], Canon(Tail(T), v[i][2])>> : i \in 1..Len(v)}
    ELSE v

RoundTrips == result.st = "Some" /\ result.v = Canon(ty, val)

NoMap(T) == \A i \in 1..Len(T) : T[i] # "HashMap"

RECURSIVE HoldsFilledMap(_, _)
\* the value is, or holds, a non-empty HashMap
HoldsFilledMap(T, v) ==
    IF T[1] = "HashMap" THEN v # <<>>
    ELSE IF T[1] = "Vec" THEN \E i \in 1..Len(v) : HoldsFilledMap(Tail(T), v[i])
    ELSE FALSE

\* C1: decoding the encoding of any i32 / i64 yields the same integer
C1_IntRoundTrip ==
    (Done("encoded") /\ ty \in {<<"i32">>, <<"i64">>}) => RoundTrips

C1_Witness ==
    Done("encoded") /\ ty = <<"i64">> /\ val = I64_MIN /\ result.v = I64_MIN

\* C2: an i32 / i64 encoding is 1..5 / 1..10 bytes, bit 7 set on all bytes but
\* the last; 0 encodes to [0x00]; the extremes take the full 5 / 10 bytes
C2_EncodingShape ==
    (pc = "encoded" /\ ty \in {<<"i32">>, <<"i64">>}) =>
        LET n == Len(encoded)
            full == IF ty = <<"i32">> THEN 5 ELSE 10
        IN  /\ n >= 1 /\ n <= full
            /\ \A i \in 1..(n - 1) : encoded[i] >= 128
            /\ encoded[n] < 128
            /\ (ty = <<"i32">> /\ val = 0) => encoded = <<0>>
            /\ (ty = <<"i64">> /\ val = Zero(64)) => encoded = <<0>>
            /\ (ty = <<"i32">> /\ val \in {I32_MIN, I32_MAX}) => n = 5
            /\ (ty = <<"i64">> /\ val \in {I64_MIN, I64_MAX}) => n = 10

C2_Witness ==
    pc = "encoded" /\ ty = <<"i64">> /\ val = I64_MAX /\ Len(encoded) = 10

\* C3: decoding the encoding of any length below 2^31 yields that length
C3_LengthRoundTrip ==
    (Done("encoded") /\ ty = <<"usize">>) => RoundTrips

C3_Witness ==
    Done("encoded") /\ ty = <<"usize">> /\ val = ToBits(I32_MAX, PtrWidth) /\ result.st = "Some"

\* |x| as a usize
MathAbs(x) == IF x = I32_MIN THEN OneHot(31, PtrWidth) ELSE ToBits(IF x < 0 THEN -x ELSE x, PtrWidth)

\* C4: whenever i32::decode returns x on a stream, usize::decode returns |x|
C4_LengthIsAbs ==
    (Done("bytes") /\ ty = <<"usize">> /\ i32_decode(stream, NewCursor).st = "Some") =>
        /\ result.st = "Some"
        /\ result.v = MathAbs(i32_decode(stream, NewCursor).v)

\* C5: i32::decode makes at most 5 cursor reads and i64::decode at most 10
C5_BoundedReads ==
    /\ (pc = "done" /\ ty = <<"i32">>) => cur.reads <= 5
    /\ (pc = "done" /\ ty = <<"i64">>) => cur.reads <= 10

\* C6: decoding the encoding of any sequence yields an equal sequence
C6_VecRoundTrip ==
    (Done("encoded") /\ ty[1] = "Vec") => RoundTrips

\* C7: decoding the encoding of any map yields an equal map, and the empty
\* map encodes to [0x00]
C7_MapRoundTrip ==
    (Done("encoded") /\ ty[1] = "HashMap") =>
        /\ RoundTrips
        /\ val = <<>> => encoded = <<0>>

\* C8: decode fails on every strict prefix of the encoding of a scalar, a
\* string or a sequence of these
C8_PrefixFails ==
    (Done("prefix") /\ NoMap(ty)) => result.st = "None"

C8_Witness ==
    /\ Done("prefix") /\ ty = <<"Vec", "String">> /\ result.st = "None"
    /\ Len(val) = 2 /\ Len(stream) = Len(encoded) - 1

\* C9 as stated: after a successful decode of the encoding of a non-empty
\* map exactly one byte is unread, and none after that of an empty map
C9_OneByteUnread ==
    (Done("encoded") /\ ty[1] = "HashMap" /\ result.st = "Some") =>
        IF val = <<>> THEN Unread = 0 ELSE Unread = 1

\* C9 as amended: the same, for maps none of whose values holds a non-empty
\* map; the unread byte is the 0x00 encode appended
C9_OneByteUnreadFlat ==
    (/\ Done("encoded") /\ ty[1] = "HashMap" /\ result.st = "Some"
     /\ \A i \in 1..Len(val) : ~HoldsFilledMap(Tail(ty), val[i][2])) =>
        IF val = <<>> THEN Unread = 0
        ELSE Unread = 1 /\ stream[Len(stream)] = 0 /\ cur.pos = Len(encoded) - 1

C9_Witness ==
    /\ Done("encoded") /\ ty = <<"HashMap", "Vec", "i32">> /\ result.st = "Some"
    /\ Len(val) = 2 /\ Unread = 1

\* the pairs of a stream that a last-write-wins map holds
LastWins(ps) ==
    {<<ps[i][1], ps[i][2]>> : i \in {j \in 1..Len(ps) : \A k \in (j + 1)..Len(ps) : ps[k][1] # ps[j][1]}}
Keys(ps) == {ps[i][1] : i \in 1..Len(ps)}
Repeats(ps) == \E i, j \in 1..Len(ps) : i # j /\ ps[i][1] = ps[j][1]

\* C10: a stream of n pairs that repeats a key decodes to a map with one
\* entry per distinct key, fewer than n, each holding its last value
C10_LastWriteWins ==
    (Done("pairs") /\ Repeats(val)) =>
        /\ result.st = "Some"
        /\ Cardinality(result.v) = Cardinality(Keys(val))
        /\ Cardinality(result.v) < Len(val)
        /\ result.v = LastWins(val)

C10_Witness ==
    /\ Done("pairs") /\ ty = <<"HashMap", "i32">> /\ result.st = "Some"
    /\ val = << <<(<<97>>), 1>>, <<(<<98>>), 1>>, <<(<<97>>), 2>> >>
    /\ result.v = {<<(<<97>>), 2>>, <<(<<98>>), 1>>}
====
